---- MODULE Spec2Model ----
(***************************************************************************)
(* Model of lista_inwestorow.py: the RocketReachAPI client (rate limiter,  *)
(* search with retry, lookup, email selection) and the synchronous loop of *)
(* main() that turns a list of company websites into result rows.          *)
(*                                                                         *)
(* Four specifications share the module:                                   *)
(*   Spec       the synchronous pipeline of main() over the client         *)
(*   SpecEmail  _process_email_data applied to bounded raw detail records  *)
(*   SpecRate   _rate_limit_check called at arbitrary times on one client  *)
(*   SpecLookup lookup_person_details called once, on any answer           *)
(***************************************************************************)
EXTENDS Integers, Sequences, FiniteSets, TLC

VARIABLES
    \* ---- _process_email_data harness
    data,               \* the raw detail record handed to _process_email_data
    resolved,           \* what _process_email_data returned
    ephase,             \* "input" before the call, "resolved" after, "idle" elsewhere
    lookup_log,         \* history: what the lookup_person_details call of the lookup
                        \* harness did
    \* ---- _rate_limit_check harness
    clock,              \* time.time(), in tenths of a second
    request_timestamps, \* self.request_timestamps
    issued,             \* history: the return times of the _rate_limit_check calls
                        \* that returned within the trailing second
    rphase,             \* "run" while the limiter harness is active, "idle" elsewhere
    \* ---- main(), synchronous mode, and the calls it makes
    pc,                 \* position in main() / search_people_profiles / _search_optimized
    titles_given,       \* job_titles holds a non-blank keyword
    exclude_given,      \* exclude_titles holds a non-blank keyword
    idx,                \* i of main(): the company being processed, 1-based
    field,              \* the field of the _search_optimized call in progress
    payload,            \* the payload built by that call
    retry_count,        \* its retry_count
    sent,               \* history: the payloads it has posted
    slept,              \* history: the waits _handle_rate_limit made for it
    rate_checks,        \* history: the _rate_limit_check calls made by the
                        \* _search_optimized call in progress or last finished
    throttle_log,       \* history: the last 429 response of the call in progress
                        \* and the seconds _handle_rate_limit waited for it
    call_log,           \* history: how the last finished _search_optimized call went
    all_results,        \* all_results of search_people_profiles
    search_calls,       \* history: the _search_optimized calls made by the
                        \* search_people_profiles call of this company
    any_candidate,      \* history: some stage of this company returned a candidate
    shared,             \* history: ids the skill stage returned that the title stage
                        \* had contributed
    hit_ids,            \* history: ids of the profiles this company's responses listed
                        \* with an exclude keyword in the title or the skills
    profiles,           \* profiles of main()
    pos,                \* position of the lookup loop in profiles
    looked,             \* history: the lookups made for this company
    valid_contacts,     \* valid_contacts of main()
    results,            \* results of main()
    found_log           \* history: any_candidate of each finished company

emailVars == <<data, resolved, ephase, lookup_log>>
rateVars  == <<clock, request_timestamps, issued, rphase>>
callVars  == <<field, payload, retry_count, sent, slept, rate_checks, throttle_log>>
mainVars  == <<pc, titles_given, exclude_given, idx, call_log, all_results, search_calls,
               any_candidate, shared, hit_ids, profiles, pos, looked, valid_contacts,
               results, found_log>>
vars      == <<emailVars, rateVars, callVars, mainVars>>

(***************************************************************************)
(* Python dictionaries.  A dict is a function from keys to values; a key   *)
(* the dict does not hold is either outside its domain or mapped to Absent *)
(* (records of one shape are easier to enumerate than records of many).    *)
(***************************************************************************)
Absent == "<absent>"

\* d.get(k, default)
Get(d, k, default) ==
    IF k \in DOMAIN d /\ d[k] # Absent THEN d[k] ELSE default

\* Python truthiness of a string-or-None value: None and '' are falsy
Truthy(v) == v \notin {Absent, ""}

EmptyDict == <<>>

Min(a, b) == IF a <= b THEN a ELSE b

\* s[:n]
Take(s, n) == SubSeq(s, 1, Min(n, Len(s)))

(***************************************************************************)
(* _process_email_data (lines 244-298)                                     *)
(***************************************************************************)

\* grade_order = {'A': 1, 'A-': 2, 'B': 3, 'B-': 4, 'C': 5, 'D': 6, 'F': 7}
grade_order ==
    [g \in {"A", "A-", "B", "B-", "C", "D", "F"} |->
        CASE g = "A"  -> 1
          [] g = "A-" -> 2
          [] g = "B"  -> 3
          [] g = "B-" -> 4
          [] g = "C"  -> 5
          [] g = "D"  -> 6
          [] g = "F"  -> 7]

\* A mutant of GradeKey: an email without a grade sorts as 'A'
GradeKey_DefaultA(x) ==
    LET g == Get(x, "grade", "A")
    IN  IF g \in DOMAIN grade_order THEN grade_order[g] ELSE 8

\* key=lambda x: grade_order.get(x.get('grade', 'F'), 8)
GradeKey(x) ==
    LET g == Get(x, "grade", "F")
    IN  IF g \in DOMAIN grade_order THEN grade_order[g] ELSE 8

\* one step of a stable sort: x goes after every element whose key is <= its own
RECURSIVE InsertByKey(_, _)
InsertByKey(x, s) ==
    IF s = <<>> THEN <<x>>
    ELSE IF GradeKey(Head(s)) <= GradeKey(x)
         THEN <<Head(s)>> \o InsertByKey(x, Tail(s))
         ELSE <<x>> \o s

\* list.sort(key=...): stable, ascending by key
RECURSIVE SortByGrade(_)
SortByGrade(s) ==
    IF s = <<>> THEN <<>>
    ELSE InsertByKey(s[Len(s)], SortByGrade(SubSeq(s, 1, Len(s) - 1)))

\* the for/break loops of lines 253-257 and 261-265: grade and smtp_valid of the
\* first entry of 'emails' whose address is professional_email ('' when none is)
RECURSIVE MatchEmail(_, _)
MatchEmail(emails, address) ==
    IF emails = <<>> THEN [email_grade |-> "", smtp_valid |-> ""]
    ELSE IF Get(Head(emails), "email", Absent) = address
         THEN [email_grade |-> Get(Head(emails), "grade", ""),
               smtp_valid  |-> Get(Head(emails), "smtp_valid", "")]
         ELSE MatchEmail(Tail(emails), address)

\* the condition of lines 270-271
IsValidProfessional(email_obj) ==
    /\ Get(email_obj, "type", Absent) = "professional"
    /\ Get(email_obj, "smtp_valid", Absent) # "invalid"

\* valid_professional_emails, the list comprehension of lines 268-272
RECURSIVE ValidProfessionalEmails(_)
ValidProfessionalEmails(emails) ==
    IF emails = <<>> THEN <<>>
    ELSE IF IsValidProfessional(Head(emails))
         THEN <<Head(emails)>> \o ValidProfessionalEmails(Tail(emails))
         ELSE ValidProfessionalEmails(Tail(emails))

\* A mutant of SelectEmail: an invalid recommended email falls through to the
\* lower levels instead of being the selection
SelectEmail_FallThrough(d) ==
    LET emails == d.emails
        rec    == Get(d, "recommended_professional_email", Absent)
        work   == Get(d, "current_work_email", Absent)
        vpe    == ValidProfessionalEmails(emails)
        best   == SortByGrade(vpe)[1]
    IN  IF Truthy(rec) /\ MatchEmail(emails, rec).smtp_valid # "invalid"
        THEN [professional_email |-> rec] @@ MatchEmail(emails, rec)
        ELSE IF Truthy(work) /\ MatchEmail(emails, work).smtp_valid # "invalid"
        THEN [professional_email |-> work] @@ MatchEmail(emails, work)
        ELSE IF vpe # <<>>
        THEN [professional_email |-> Get(best, "email", ""),
              email_grade        |-> Get(best, "grade", ""),
              smtp_valid         |-> Get(best, "smtp_valid", "")]
        ELSE [professional_email |-> "", email_grade |-> "", smtp_valid |-> ""]

\* lines 246-283: the if/elif chain that selects professional_email, email_grade
\* and smtp_valid.  data.get('emails', []) and "'emails' in data" agree on a
\* record without the key (both see no entries), so an absent list is the empty
\* sequence and d.emails is always defined.
SelectEmail(d) ==
    LET emails == d.emails
        rec    == Get(d, "recommended_professional_email", Absent)
        work   == Get(d, "current_work_email", Absent)
        vpe    == ValidProfessionalEmails(emails)
        best   == SortByGrade(vpe)[1]
    IN  IF Truthy(rec)
        THEN [professional_email |-> rec] @@ MatchEmail(emails, rec)
        ELSE IF Truthy(work)
        THEN [professional_email |-> work] @@ MatchEmail(emails, work)
        ELSE IF vpe # <<>>
        THEN [professional_email |-> Get(best, "email", ""),
              email_grade        |-> Get(best, "grade", ""),
              smtp_valid         |-> Get(best, "smtp_valid", "")]
        ELSE [professional_email |-> "", email_grade |-> "", smtp_valid |-> ""]

\* A mutant of ProcessEmailData: the final smtp_valid check of line 285 is missing
ProcessEmailData_NoInvalidCheck(d, person_id) ==
    LET sel == SelectEmail(d)
    IN  [id          |-> person_id,
         email       |-> sel.professional_email,
         email_grade |-> sel.email_grade,
         smtp_valid  |-> sel.smtp_valid]

\* _process_email_data(data, person_id).  The fields copied unchanged from the
\* record (name, title, linkedin, company, skills) play no part and are left out.
ProcessEmailData(d, person_id) ==
    LET sel == SelectEmail(d)
    IN  IF sel.smtp_valid = "invalid"
        THEN EmptyDict
        ELSE [id          |-> person_id,
              email       |-> sel.professional_email,
              email_grade |-> sel.email_grade,
              smtp_valid  |-> sel.smtp_valid]

(***************************************************************************)
(* Inputs of the _process_email_data harness                               *)
(***************************************************************************)
MaxEmails == 2          \* longest enumerated 'emails' list

Addresses   == {"r@co", "w@co"}
GradeValues == {"A", "A-", "B", "B-", "C", "D", "F", "X", Absent}  \* "X": unknown grade
SmtpValues  == {"valid", "invalid", Absent}

EmailObj(a, t, g, s) == [email |-> a, type |-> t, grade |-> g, smtp_valid |-> s]

\* entries for the hierarchy: every address, type and validity, two grades
HierarchyEntries ==
    {EmailObj(a, t, g, s) : a \in Addresses, t \in {"professional", "personal"},
                            g \in {"B", Absent}, s \in SmtpValues}

\* entries for the grade ordering: one address per position, every grade
AddressAt(i) == <<"e1@co", "e2@co", "e3@co", "e4@co">>[i]

GradeEntries(i) ==
    {EmailObj(AddressAt(i), t, g, s) :
        t \in {"professional", "personal"}, g \in GradeValues, s \in SmtpValues}

RawDetail(rec, work, emails) ==
    [recommended_professional_email |-> rec,
     current_work_email             |-> work,
     emails                         |-> emails]

ProfessionalValid(addr, g) == EmailObj(addr, "professional", g, "valid")

\* the two graded lists the specification names: [B, A-, D, A] and [B-, C]
ExampleDetails ==
    { RawDetail(Absent, Absent,
        << ProfessionalValid("b@co", "B"), ProfessionalValid("am@co", "A-"),
           ProfessionalValid("d@co", "D"), ProfessionalValid("a@co", "A") >>),
      RawDetail(Absent, Absent,
        << ProfessionalValid("bm@co", "B-"), ProfessionalValid("c@co", "C") >>) }

\* d is a record for the hierarchy: any recommended and current work email over
\* a list of up to MaxEmails hierarchy entries
HierarchyDetail(d) ==
    \E m \in 0..MaxEmails : \E emails \in [1..m -> HierarchyEntries] :
        \E rec \in Addresses \cup {Absent}, work \in Addresses \cup {Absent, ""} :
            d = RawDetail(rec, work, emails)

\* the lists of m entries whose i-th entry is one of GradeEntries(i)
RECURSIVE GradeLists(_)
GradeLists(m) ==
    IF m = 0 THEN {<<>>}
    ELSE {Append(l, e) : l \in GradeLists(m - 1), e \in GradeEntries(m)}

\* d is a record for the grade ordering: neither a recommended nor a current
\* work email, a list of up to MaxEmails graded entries
GradeDetail(d) ==
    \E m \in 0..MaxEmails : \E emails \in GradeLists(m) :
        d = RawDetail(Absent, Absent, emails)

\* d is one of the records the harness hands to _process_email_data
RawDetailInput(d) ==
    \/ d \in ExampleDetails
    \/ HierarchyDetail(d)
    \/ GradeDetail(d)

PersonId == 1

MainIdle ==
    /\ pc = "idle"
    /\ titles_given = FALSE
    /\ exclude_given = FALSE
    /\ idx = 1
    /\ field = ""
    /\ payload = EmptyDict
    /\ retry_count = 0
    /\ sent = <<>>
    /\ slept = 0
    /\ rate_checks = 0
    /\ throttle_log = [outcome |-> "none"]
    /\ search_calls = 0
    /\ call_log = [outcome |-> "none"]
    /\ all_results = <<>>
    /\ any_candidate = FALSE
    /\ shared = {}
    /\ hit_ids = {}
    /\ profiles = <<>>
    /\ pos = 1
    /\ looked = <<>>
    /\ valid_contacts = <<>>
    /\ results = <<>>
    /\ found_log = <<>>

EmailIdle ==
    /\ data = EmptyDict
    /\ resolved = EmptyDict
    /\ ephase = "idle"
    /\ lookup_log = [outcome |-> "none"]

RateIdle ==
    /\ clock = 0
    /\ request_timestamps = <<>>
    /\ issued = <<>>
    /\ rphase = "idle"

InitEmail ==
    /\ RawDetailInput(data)
    /\ resolved = EmptyDict
    /\ ephase = "input"
    /\ lookup_log = [outcome |-> "none"]
    /\ RateIdle
    /\ MainIdle

\* one call of _process_email_data
Resolve ==
    /\ ephase = "input"
    /\ resolved' = ProcessEmailData(data, PersonId)
    /\ ephase' = "resolved"
    /\ UNCHANGED <<data, lookup_log, rateVars, callVars, mainVars>>

NextEmail == Resolve

SpecEmail == InitEmail /\ [][NextEmail]_vars

(***************************************************************************)
(* _rate_limit_check (lines 43-54), time in tenths of a second             *)
(***************************************************************************)
Window      == 10       \* the 1 second of lines 47 and 50
RateCeiling == 5        \* line 49
JitterMin   == 1        \* random.uniform(0.1, 0.3), line 52
JitterMax   == 3

MaxClock == 14          \* no call starts after this time

\* [t for t in self.request_timestamps if t > now - 1]
PruneTimestamps(ts, now) == SelectSeq(ts, LAMBDA t : t > now - Window)

\* how long the call sleeps (lines 49-52), ts being the pruned list
SleepTime(ts, now, jitter) ==
    IF Len(ts) >= RateCeiling
    THEN LET sleep_time == Window - (now - ts[1])
         IN  IF sleep_time > 0 THEN sleep_time + jitter ELSE 0
    ELSE 0

InitRate ==
    /\ clock = 0
    /\ request_timestamps = <<>>
    /\ issued = <<>>
    /\ rphase = "run"
    /\ EmailIdle
    /\ MainIdle

\* one call of _rate_limit_check, from time.time() to its return: the caller
\* sends its request when the call returns
RateLimitCheck ==
    /\ rphase = "run"
    /\ clock <= MaxClock
    /\ \E jitter \in JitterMin..JitterMax :
          LET now    == clock
              pruned == PruneTimestamps(request_timestamps, now)
              back   == now + SleepTime(pruned, now, jitter)
          IN  /\ request_timestamps' = Append(pruned, now)
              /\ clock' = back
              /\ issued' = Append(SelectSeq(issued, LAMBDA t : t > back - Window), back)
    /\ UNCHANGED <<rphase, emailVars, callVars, mainVars>>

\* time passes between two calls
Tick ==
    /\ rphase = "run"
    /\ clock < MaxClock
    /\ clock' = clock + 1
    /\ issued' = SelectSeq(issued, LAMBDA t : t > clock' - Window)
    /\ UNCHANGED <<request_timestamps, rphase, emailVars, callVars, mainVars>>

NextRate == RateLimitCheck \/ Tick

SpecRate == InitRate /\ [][NextRate]_vars

(***************************************************************************)
(* The people-search service as the client sees it                         *)
(***************************************************************************)
NumCompanies == 2       \* len(websites)
MaxProfiles  == 11      \* most profiles in one search response
MaxStart     == 2       \* the skill response lists ids from 1..MaxStart on

websites == [j \in 1..NumCompanies |-> j]

\* A profile of a search response.  title_hit: its current_title, lower-cased,
\* contains an exclude keyword; skills_hit: its joined skills do.
Person(id, th, sh) == [id |-> id, title_hit |-> th, skills_hit |-> sh]

\* The 'profiles' of a 201 response: n profiles with ids s, s+1, ..., the first
\* one made special by the variant: listed twice ("dup"), or carrying an exclude
\* keyword in its title ("title_hit") or in its skills ("skills_hit").
Response(s, n, variant) ==
    LET plain == [j \in 1..n |->
                    Person(s + j - 1, j = 1 /\ variant = "title_hit",
                                      j = 1 /\ variant = "skills_hit")]
    IN  IF variant = "dup" /\ n > 0 THEN <<plain[1]>> \o plain ELSE plain

Variants == {"plain", "dup", "title_hit", "skills_hit"}

Responses(fld) ==
    {Response(s, n, v) : s \in (IF fld = "current_title" THEN {1} ELSE 1..MaxStart),
                         n \in 0..MaxProfiles, v \in Variants}

NoValue == -1           \* a number the response does not carry

\* A 429 response: its body parses as JSON or not, the body's 'wait' field and
\* the Retry-After header are numbers of seconds or missing (section 6 of the
\* specification: the service states the wait in one of the two).  A body that
\* is not JSON has no 'wait' field.
ThrottledResponses ==
    {r \in [status : {429}, json_ok : BOOLEAN, wait : {NoValue, 2},
            retry_after : {NoValue, 7}] : r.json_ok \/ r.wait = NoValue}

\* lookup responses of the pipeline: a recommended email that is valid, a
\* current work email that is valid, a recommended email that is invalid, a
\* record with no email at all, one whose only email is invalid
DetailValid   == RawDetail("r@co", Absent, <<EmailObj("r@co", "professional", "A", "valid")>>)
DetailWork    == RawDetail(Absent, "w@co", <<EmailObj("w@co", "professional", "B", "valid")>>)
DetailInvalid == RawDetail("r@co", Absent, <<EmailObj("r@co", "professional", "A", "invalid")>>)
DetailNoEmail == RawDetail(Absent, Absent, <<>>)
DetailOnlyInvalid ==
    RawDetail(Absent, Absent, <<EmailObj("w@co", "professional", "B", "invalid")>>)

\* the one person whose record holds a current work email, an employee of the
\* last company of the list
WorkEmailId == 6

\* the record the service holds for a person when it has a usable email: one
\* person has a current work email, every other a recommended one
UsableDetail(website, id) ==
    IF website = websites[NumCompanies] /\ id = WorkEmailId THEN DetailWork
    ELSE DetailValid

\* what a lookup of person id, found at website, can be answered with
LookupDetails(website, id) ==
    {UsableDetail(website, id), DetailInvalid, DetailNoEmail, DetailOnlyInvalid}

\* the records of LookupDetails that hold a usable email
UsableDetails == {DetailValid, DetailWork}

(***************************************************************************)
(* _handle_rate_limit (lines 56-68)                                        *)
(***************************************************************************)
DefaultWait == 60       \* lines 61 and 63

\* retry_after of lines 59-63
RetryAfter(response) ==
    IF response.json_ok
    THEN IF response.wait # NoValue THEN response.wait ELSE DefaultWait
    ELSE IF response.retry_after # NoValue THEN response.retry_after ELSE DefaultWait

\* _handle_rate_limit(response): whether it slept and told the caller to retry
HandleRateLimit(response) == response.status = 429

(***************************************************************************)
(* _search_optimized (lines 100-181)                                       *)
(***************************************************************************)
max_retries == 3        \* line 130

\* A mutant of RetryAllowed: the loop admits one attempt more
RetryAllowed_OffByOne(rc) == rc <= max_retries

\* while retry_count < max_retries (line 133)
RetryAllowed(rc) == rc < max_retries

\* check_value of lines 151-156 holds an exclude keyword (line 159)
Excluded(fld, person) ==
    /\ exclude_given
    /\ IF fld = "current_title" THEN person.title_hit ELSE person.skills_hit

\* the dict of lines 162-169; name, title, company, linkedin and skills are
\* copied from the profile, decide nothing later and are left out
Candidate(person) == [id |-> person.id]

\* the loop of lines 149-169 over data['profiles']
RECURSIVE ClientFilter(_, _)
ClientFilter(fld, people) ==
    IF people = <<>> THEN <<>>
    ELSE IF Excluded(fld, Head(people)) THEN ClientFilter(fld, Tail(people))
         ELSE <<Candidate(Head(people))>> \o ClientFilter(fld, Tail(people))

\* the ids of the profiles of a response that carry an exclude keyword
HitIds(people) ==
    {people[j].id : j \in {n \in 1..Len(people) :
                              people[n].title_hit \/ people[n].skills_hit}}

\* lines 115-128
BuildPayload(website, fld) ==
    [company_domain |-> website, field |-> fld, values |-> "job_titles",
     exclude |-> IF exclude_given THEN "exclude_titles" ELSE Absent]

(***************************************************************************)
(* search_people_profiles (lines 70-98)                                    *)
(***************************************************************************)
StageCap  == 10         \* lines 78, 81 and 90
ReturnCap == 5          \* line 94

Ids(people) == {people[j].id : j \in 1..Len(people)}

\* A mutant of AddUnique: the new skill results are put before the title results
AddUnique_SkillFirst(all, skill_results, existing) ==
    SelectSeq(skill_results, LAMBDA r : r.id \notin existing) \o all

\* the loop of lines 87-91: existing is existing_ids, computed once at line 86
RECURSIVE AddUnique(_, _, _)
AddUnique(all, skill_results, existing) ==
    IF skill_results = <<>> THEN all
    ELSE IF Head(skill_results).id \notin existing
         THEN LET more == Append(all, Head(skill_results))
              IN  IF Len(more) >= StageCap THEN more
                  ELSE AddUnique(more, Tail(skill_results), existing)
         ELSE AddUnique(all, Tail(skill_results), existing)

\* A mutant of ProfilesToCheck: the list is returned whole
ProfilesToCheck_NoCap(all) == all

\* A mutant of ProfilesToCheck: the list is cut at the cap of the stages
ProfilesToCheck_StageCap(all) == Take(all, StageCap)

\* return all_results[:5] (line 94)
ProfilesToCheck(all) == Take(all, ReturnCap)

NoCall == [outcome |-> "none"]

\* search_people_profiles returns to main() with all as its all_results
SearchReturn(all, log) ==
    /\ profiles' = ProfilesToCheck(all)
    /\ all_results' = <<>>
    /\ field' = ""
    /\ call_log' = log
    /\ pc' = "profiles"

\* _search_optimized returns res to search_people_profiles, which goes on: after
\* the title stage to the skill stage or to its return (lines 78-83), after the
\* skill stage to its return (lines 86-94)
StageReturn(res, outcome, posted, waits) ==
    LET log == [outcome |-> outcome, field |-> field, attempts |-> Len(posted),
                waits |-> waits, returned |-> Len(res)]
    IN  /\ any_candidate' = (any_candidate \/ res # <<>>)
        /\ payload' = EmptyDict
        /\ sent' = <<>>
        /\ retry_count' = 0
        /\ slept' = 0
        /\ throttle_log' = NoCall
        /\ IF field = "current_title"
           THEN LET all == Take(res, StageCap)
                IN  /\ shared' = {}
                    /\ IF Len(all) < StageCap
                       THEN /\ all_results' = all
                            /\ field' = "skills"
                            /\ call_log' = log
                            /\ pc' = "search_enter"
                            /\ UNCHANGED profiles
                       ELSE SearchReturn(all, log)
           ELSE /\ shared' = Ids(res) \cap Ids(all_results)
                /\ SearchReturn(AddUnique(all_results, res, Ids(all_results)), log)

\* A mutant of SearchExcept: the exception leaves _search_optimized and
\* search_people_profiles and ends main()
SearchExcept_Propagates(posted, waits) ==
    /\ pc' = "crashed"
    /\ sent' = posted
    /\ UNCHANGED <<field, payload, retry_count, slept, throttle_log, call_log,
                   all_results, any_candidate, shared, profiles>>

\* except Exception of lines 179-181: return []
SearchExcept(posted, waits) == StageReturn(<<>>, "exception", posted, waits)

(***************************************************************************)
(* main(), synchronous mode (lines 425-503)                                *)
(***************************************************************************)
InitMain ==
    /\ pc = "main_loop"
    /\ titles_given \in BOOLEAN
    /\ exclude_given \in BOOLEAN
    /\ idx = 1
    /\ field = ""
    /\ payload = EmptyDict
    /\ retry_count = 0
    /\ sent = <<>>
    /\ slept = 0
    /\ rate_checks = 0
    /\ throttle_log = NoCall
    /\ search_calls = 0
    /\ call_log = NoCall
    /\ all_results = <<>>
    /\ any_candidate = FALSE
    /\ shared = {}
    /\ hit_ids = {}
    /\ profiles = <<>>
    /\ pos = 1
    /\ looked = <<>>
    /\ valid_contacts = <<>>
    /\ results = <<>>
    /\ found_log = <<>>

Init == InitMain /\ EmailIdle /\ RateIdle

unchangedOthers == UNCHANGED <<emailVars, rateVars, titles_given, exclude_given>>

\* line 433: main() calls search_people_profiles for websites[idx], which starts
\* the title stage (lines 73-77)
StartCompany ==
    /\ pc = "main_loop"
    /\ field' = "current_title"
    /\ all_results' = <<>>
    /\ any_candidate' = FALSE
    /\ shared' = {}
    /\ hit_ids' = {}
    /\ call_log' = NoCall
    /\ search_calls' = 0
    /\ pc' = "search_enter"
    /\ UNCHANGED <<payload, retry_count, sent, slept, rate_checks, throttle_log, idx,
                   profiles, pos, looked, valid_contacts, results, found_log>>
    /\ unchangedOthers

\* A mutant of SearchEnter: the payload is built and the loop entered whether
\* or not a keyword is left
SearchEnter_NoSkip ==
    /\ pc = "search_enter"
    /\ search_calls' = search_calls + 1
    /\ rate_checks' = 1
    /\ payload' = BuildPayload(websites[idx], field)
    /\ sent' = <<>>
    /\ retry_count' = 0
    /\ slept' = 0
    /\ throttle_log' = NoCall
    /\ call_log' = NoCall
    /\ pc' = "search_loop"
    /\ UNCHANGED <<field, all_results, any_candidate, shared, profiles>>
    /\ UNCHANGED <<idx, hit_ids, pos, looked, valid_contacts, results,
                   found_log>>
    /\ unchangedOthers

\* _search_optimized up to its loop (lines 102-131): one _rate_limit_check, then
\* no keyword, no request
SearchEnter ==
    /\ pc = "search_enter"
    /\ search_calls' = search_calls + 1
    /\ rate_checks' = 1
    /\ IF ~titles_given
       THEN StageReturn(<<>>, "skipped", <<>>, 0)
       ELSE /\ payload' = BuildPayload(websites[idx], field)
            /\ sent' = <<>>
            /\ retry_count' = 0
            /\ slept' = 0
            /\ throttle_log' = NoCall
            /\ call_log' = NoCall
            /\ pc' = "search_loop"
            /\ UNCHANGED <<field, all_results, any_candidate, shared, profiles>>
    /\ UNCHANGED <<idx, hit_ids, pos, looked, valid_contacts, results,
                   found_log>>
    /\ unchangedOthers

\* A mutant of SearchThrottled: the 429 is waited for and the request sent again
\* without retry_count being counted up
SearchThrottled_NoCount ==
    /\ pc = "search_loop"
    /\ \E response \in ThrottledResponses :
          /\ HandleRateLimit(response)
          /\ sent' = <<payload>>
          /\ slept' = 1
          /\ throttle_log' = [response |-> response, waited |-> RetryAfter(response)]
    /\ UNCHANGED <<pc, field, payload, retry_count, call_log, all_results,
                   any_candidate, shared, profiles, rate_checks, search_calls>>
    /\ UNCHANGED <<idx, hit_ids, pos, looked, valid_contacts, results,
                   found_log>>
    /\ unchangedOthers

\* one requests.post answered 429 (lines 134-143): wait, count, try again while
\* the loop admits it, else return [] (line 177)
SearchThrottled ==
    /\ pc = "search_loop"
    /\ \E response \in ThrottledResponses :
          /\ HandleRateLimit(response)
          /\ IF RetryAllowed(retry_count + 1)
             THEN /\ sent' = Append(sent, payload)
                  /\ retry_count' = retry_count + 1
                  /\ slept' = slept + 1
                  /\ throttle_log' = [response |-> response,
                                      waited |-> RetryAfter(response)]
                  /\ UNCHANGED <<pc, field, payload, call_log, all_results,
                                 any_candidate, shared, profiles>>
             ELSE StageReturn(<<>>, "throttled", Append(sent, payload), slept + 1)
    /\ UNCHANGED <<rate_checks, search_calls>>
    /\ UNCHANGED <<idx, hit_ids, pos, looked, valid_contacts, results,
                   found_log>>
    /\ unchangedOthers

\* one requests.post answered 201 (lines 145-171)
SearchSuccess ==
    /\ pc = "search_loop"
    /\ \E people \in Responses(field) :
          /\ StageReturn(ClientFilter(field, people), "success", Append(sent, payload), slept)
          /\ hit_ids' = hit_ids \cup (IF exclude_given THEN HitIds(people) ELSE {})
    /\ UNCHANGED <<rate_checks, search_calls>>
    /\ UNCHANGED <<idx, pos, looked, valid_contacts, results, found_log>>
    /\ unchangedOthers

\* A mutant of SearchHttpError: the failed request ends search_people_profiles,
\* which returns what it has without trying the next stage
SearchHttpError_StopsSearch ==
    /\ pc = "search_loop"
    /\ SearchReturn(all_results,
                    [outcome |-> "http_error", field |-> field,
                     attempts |-> Len(sent) + 1, waits |-> slept, returned |-> 0])
    /\ payload' = EmptyDict
    /\ sent' = <<>>
    /\ retry_count' = 0
    /\ slept' = 0
    /\ throttle_log' = NoCall
    /\ UNCHANGED <<any_candidate, shared, rate_checks, search_calls>>
    /\ UNCHANGED <<idx, hit_ids, pos, looked, valid_contacts, results,
                   found_log>>
    /\ unchangedOthers

\* one requests.post answered with another status (lines 173-177)
SearchHttpError ==
    /\ pc = "search_loop"
    /\ StageReturn(<<>>, "http_error", Append(sent, payload), slept)
    /\ UNCHANGED <<rate_checks, search_calls>>
    /\ UNCHANGED <<idx, hit_ids, pos, looked, valid_contacts, results,
                   found_log>>
    /\ unchangedOthers

\* an exception inside the try of _search_optimized: extract_domain on a
\* malformed website before the loop (_rate_limit_check has run by then),
\* requests.post or response.json() in it
SearchException ==
    /\ pc \in {"search_enter", "search_loop"}
    /\ SearchExcept(IF pc = "search_enter" THEN <<>> ELSE Append(sent, payload), slept)
    /\ rate_checks' = 1
    /\ search_calls' = IF pc = "search_enter" THEN search_calls + 1 ELSE search_calls
    /\ UNCHANGED <<idx, hit_ids, pos, looked, valid_contacts, results,
                   found_log>>
    /\ unchangedOthers

Status == {"found", "no_valid_emails", "no_profiles"}

\* results.append(result_row) and the end of the loop body (lines 496-501)
AppendRow(row) ==
    /\ results' = Append(results, row)
    /\ found_log' = Append(found_log, [any_candidate |-> any_candidate,
                                        usable |-> Cardinality({j \in 1..Len(looked) :
                                                                  looked[j].usable})])
    /\ idx' = idx + 1
    /\ pc' = IF idx = NumCompanies THEN "done" ELSE "main_loop"
    /\ profiles' = <<>>
    /\ valid_contacts' = <<>>
    /\ looked' = <<>>
    /\ pos' = 1
    /\ shared' = {}
    /\ hit_ids' = {}
    /\ any_candidate' = FALSE
    /\ call_log' = NoCall
    /\ search_calls' = 0
    /\ UNCHANGED <<callVars, all_results>>
    /\ unchangedOthers

Slots == 5              \* the contact columns of a row (lines 439, 475)

\* the columns of one contact (lines 476-483); name, title and LinkedIn URL are
\* copied likewise and left out
RowContact(contact) ==
    [email       |-> Get(contact, "email", ""),
     email_grade |-> Get(contact, "email_grade", ""),
     smtp_valid  |-> Get(contact, "smtp_valid", "")]

\* A mutant of ResultRow: a company with candidates is reported as found, the
\* count being that of its candidates
ResultRow_CountsProfiles(website, profs, contacts) ==
    LET shown == Take(contacts, Slots)
    IN  IF profs = <<>>
        THEN [website |-> website, status |-> "no_profiles", n |-> 0, contacts |-> <<>>]
        ELSE [website |-> website, status |-> "found", n |-> Len(profs),
              contacts |-> [j \in 1..Len(shown) |-> RowContact(shown[j])]]

\* result_row of lines 435-494: "Nie znaleziono profili", "Nie znaleziono
\* kontaktow z prawidlowymi emailami" or "Znaleziono n kontakt(ow) ...", and the
\* filled contact columns (the padding columns are empty strings)
ResultRow(website, profs, contacts) ==
    LET shown == Take(contacts, Slots)
    IN  IF profs = <<>>
        THEN [website |-> website, status |-> "no_profiles", n |-> 0, contacts |-> <<>>]
        ELSE IF contacts = <<>>
        THEN [website |-> website, status |-> "no_valid_emails", n |-> 0,
              contacts |-> <<>>]
        ELSE [website |-> website, status |-> "found", n |-> Len(contacts),
              contacts |-> [j \in 1..Len(shown) |-> RowContact(shown[j])]]

\* if not profiles (lines 437-447)
NoProfilesRow ==
    /\ pc = "profiles"
    /\ profiles = <<>>
    /\ AppendRow(ResultRow(websites[idx], profiles, <<>>))

\* else: valid_contacts = [] (line 449)
BeginLookups ==
    /\ pc = "profiles"
    /\ profiles # <<>>
    /\ valid_contacts' = <<>>
    /\ pos' = 1
    /\ looked' = <<>>
    /\ call_log' = NoCall
    /\ hit_ids' = {}
    /\ search_calls' = 0
    /\ pc' = "lookup"
    /\ UNCHANGED <<callVars, idx, all_results, any_candidate, shared, profiles, results,
                   found_log>>
    /\ unchangedOthers

\* lookup_person_details (lines 218-242) for an answer of the given status
LookupPersonDetails(status, detail, person_id) ==
    IF status = 200 THEN ProcessEmailData(detail, person_id) ELSE EmptyDict

\* A mutant of KeepContact: any non-empty details make a contact
KeepContact_AnyDetails(details) == details # EmptyDict

\* the condition of line 456
KeepContact(details) ==
    /\ Truthy(Get(details, "email", Absent))
    /\ Get(details, "smtp_valid", Absent) # "invalid"

\* the body of the loop of lines 452-459 once details are there
AfterLookup(details, usable) ==
    /\ valid_contacts' = IF KeepContact(details) THEN Append(valid_contacts, details)
                         ELSE valid_contacts
    /\ looked' = Append(looked, [id |-> profiles[pos].id, usable |-> usable])
    /\ pos' = pos + 1
    /\ pc' = IF pos = Len(profiles) THEN "row" ELSE "lookup"
    /\ UNCHANGED <<callVars, idx, call_log, all_results, search_calls, any_candidate,
                   shared, hit_ids, profiles, results, found_log>>
    /\ unchangedOthers

\* a lookup answered 200
LookupOk ==
    /\ pc = "lookup"
    /\ \E detail \in LookupDetails(websites[idx], profiles[pos].id) :
          AfterLookup(LookupPersonDetails(200, detail, profiles[pos].id),
                      detail \in UsableDetails)

\* the statuses other than 200 that a lookup is answered with
LookupErrorStatuses == {404, 429}

\* a lookup answered with another status (lines 236-238), 429 being one of them
LookupHttpError ==
    /\ pc = "lookup"
    /\ \E status \in LookupErrorStatuses :
          AfterLookup(LookupPersonDetails(status, DetailNoEmail, profiles[pos].id), FALSE)

\* requests.get or response.json() raises (lines 240-242)
LookupException ==
    /\ pc = "lookup"
    /\ AfterLookup(EmptyDict, FALSE)

\* lines 461-496
WriteRow ==
    /\ pc = "row"
    /\ AppendRow(ResultRow(websites[idx], profiles, valid_contacts))

Next ==
    \/ StartCompany
    \/ SearchEnter
    \/ SearchThrottled
    \/ SearchSuccess
    \/ SearchHttpError
    \/ SearchException
    \/ NoProfilesRow
    \/ BeginLookups
    \/ LookupOk
    \/ LookupHttpError
    \/ LookupException
    \/ WriteRow

Spec == Init /\ [][Next]_vars

(***************************************************************************)
(* lookup_person_details (lines 218-242) called once, on any answer        *)
(***************************************************************************)

\* what one lookup_person_details call did (lines 220-238): one
\* _rate_limit_check, one requests.get, no wait and no second request whatever
\* the status of the answer (NoValue: requests.get raised)
LookupLog(status) == [status |-> status, checks |-> 1, requests |-> 1, waits |-> 0]

InitLookup ==
    /\ RawDetailInput(data)
    /\ resolved = EmptyDict
    /\ ephase = "input"
    /\ lookup_log = NoCall
    /\ RateIdle
    /\ MainIdle

\* one call of lookup_person_details, answered 200 with data as the body, with
\* another status, or not at all
LookupCall ==
    /\ ephase = "input"
    /\ \E status \in {200} \cup LookupErrorStatuses \cup {NoValue} :
          /\ resolved' = IF status = NoValue THEN EmptyDict
                         ELSE LookupPersonDetails(status, data, PersonId)
          /\ lookup_log' = LookupLog(status)
    /\ ephase' = "resolved"
    /\ UNCHANGED <<data, rateVars, callVars, mainVars>>

NextLookup == LookupCall

SpecLookup == InitLookup /\ [][NextLookup]_vars

(***************************************************************************)
(* Properties of _process_email_data, checked under SpecEmail              *)
(***************************************************************************)
Rec    == data.recommended_professional_email
Work   == data.current_work_email
Emails == data.emails

\* the entries of 'emails' that carry address a
EntriesOf(a) == {i \in 1..Len(Emails) : Emails[i].email = a}

\* address a is marked SMTP-invalid: the first entry that carries it says so
MarkedInvalid(a) ==
    \E i \in EntriesOf(a) :
        /\ Emails[i].smtp_valid = "invalid"
        /\ \A j \in EntriesOf(a) : i <= j

\* the professional entries that are not marked invalid
ValidProfessionals ==
    {i \in 1..Len(Emails) :
        Emails[i].type = "professional" /\ Emails[i].smtp_valid # "invalid"}

\* resolved carries the address, grade and validity of entry i
CarriesEntry(i) ==
    /\ resolved.email = Emails[i].email
    /\ resolved.email_grade = (IF Emails[i].grade = Absent THEN "" ELSE Emails[i].grade)
    /\ resolved.smtp_valid = (IF Emails[i].smtp_valid = Absent THEN "" ELSE Emails[i].smtp_valid)

\* C2: _process_email_data never returns a contact whose selected email is marked
\* smtp_valid == 'invalid': a returned contact's smtp_valid is not 'invalid', its
\* address is not one that 'emails' marks invalid, and a recommended or current
\* work email that is marked invalid gives the empty result.
C2_NeverReturnsInvalid ==
    ephase = "resolved" =>
        /\ resolved # EmptyDict =>
              /\ resolved.smtp_valid # "invalid"
              /\ (Truthy(Rec) \/ Truthy(Work)) => ~MarkedInvalid(resolved.email)
              /\ (~Truthy(Rec) /\ ~Truthy(Work) /\ resolved.email # "") =>
                    \E i \in ValidProfessionals : CarriesEntry(i)
        /\ (Truthy(Rec) /\ MarkedInvalid(Rec)) => resolved = EmptyDict
        /\ (~Truthy(Rec) /\ Truthy(Work) /\ MarkedInvalid(Work)) => resolved = EmptyDict

\* C2 witness: the recommended email is marked invalid and nothing is returned
C2_Witness ==
    /\ ephase = "resolved"
    /\ Truthy(Rec) /\ MarkedInvalid(Rec)
    /\ resolved = EmptyDict

\* rank of a grade as the specification orders it: A > A- > B > B- > C > D > F,
\* and every ungraded email (grade absent or unknown) strictly after F
ClaimedRank(g) ==
    CASE g = "A" -> 1 [] g = "A-" -> 2 [] g = "B" -> 3 [] g = "B-" -> 4
      [] g = "C" -> 5 [] g = "D" -> 6 [] g = "F" -> 7 [] OTHER -> 8

\* rank of a grade as the code orders it: an email with no grade at all ranks
\* with F, an unknown grade strictly after F
AmendedRank(g) ==
    CASE g = "A" -> 1 [] g = "A-" -> 2 [] g = "B" -> 3 [] g = "B-" -> 4
      [] g = "C" -> 5 [] g = "D" -> 6 [] g = "F" -> 7 [] g = Absent -> 7
      [] OTHER -> 8

\* resolved carries a best-ranked professional entry that is not invalid
CarriesBest(rank(_)) ==
    \E i \in ValidProfessionals :
        /\ CarriesEntry(i)
        /\ \A j \in ValidProfessionals : rank(Emails[i].grade) <= rank(Emails[j].grade)

\* a level of the hierarchy yields an email: it is present and not marked invalid
Yields1 == Truthy(Rec) /\ ~MarkedInvalid(Rec)
Yields2 == Truthy(Work) /\ ~MarkedInvalid(Work)
Yields3 == ValidProfessionals # {}

\* C3 as claimed: a level matches only if its email is present and not invalid,
\* the first level that matches supplies the returned email, and no contact is
\* returned only when no level matches.
C3_FirstValidLevelWins ==
    ephase = "resolved" =>
        /\ resolved = EmptyDict => ~(Yields1 \/ Yields2 \/ Yields3)
        /\ Yields1 => (resolved # EmptyDict /\ resolved.email = Rec)
        /\ (~Yields1 /\ Yields2) => (resolved # EmptyDict /\ resolved.email = Work)
        /\ (~Yields1 /\ ~Yields2 /\ Yields3) =>
              (resolved # EmptyDict /\ CarriesBest(AmendedRank))

\* the level that wins in the code: the first whose email is present
WinningLevel ==
    IF Truthy(Rec) THEN 1
    ELSE IF Truthy(Work) THEN 2
    ELSE IF ValidProfessionals # {} THEN 3
    ELSE 0

\* C3 as amended: the first level whose email is present wins, invalid or not.
\* No contact is returned exactly when the winning email (of level 1 or 2) is
\* marked invalid, and no lower level is tried; otherwise the contact carries
\* the winning level's email, which is empty when no level has one.
C3_FirstPresentLevelWins ==
    ephase = "resolved" =>
        /\ resolved = EmptyDict <=>
              \/ WinningLevel = 1 /\ MarkedInvalid(Rec)
              \/ WinningLevel = 2 /\ MarkedInvalid(Work)
        /\ resolved # EmptyDict =>
              /\ WinningLevel = 1 => resolved.email = Rec
              /\ WinningLevel = 2 => resolved.email = Work
              /\ WinningLevel = 3 => CarriesBest(AmendedRank)
              /\ WinningLevel = 0 => resolved.email = ""

\* C3 witness: the recommended email is invalid, the current work email is
\* present and valid, and the resolver returns nothing
C3_Witness ==
    /\ ephase = "resolved"
    /\ Truthy(Rec) /\ MarkedInvalid(Rec)
    /\ Truthy(Work) /\ EntriesOf(Work) # {} /\ ~MarkedInvalid(Work)
    /\ resolved = EmptyDict

NoRecommendedNoWork == ~Truthy(Rec) /\ ~Truthy(Work)

Example1 == RawDetail(Absent, Absent,
    << ProfessionalValid("b@co", "B"), ProfessionalValid("am@co", "A-"),
       ProfessionalValid("d@co", "D"), ProfessionalValid("a@co", "A") >>)
Example2 == RawDetail(Absent, Absent,
    << ProfessionalValid("bm@co", "B-"), ProfessionalValid("c@co", "C") >>)

\* C4 as claimed: with no recommended and no current work email, the contact
\* carries a professional, not-invalid email of the best grade under
\* A > A- > B > B- > C > D > F > ungraded, an email whose grade is absent or
\* unknown ranking strictly after F.
C4_BestGradeUngradedLast ==
    (ephase = "resolved" /\ NoRecommendedNoWork /\ ValidProfessionals # {}) =>
        /\ resolved # EmptyDict
        /\ CarriesBest(ClaimedRank)

\* C4 as amended: the same with an email that has no grade at all ranking equal
\* to F (only an unknown grade ranks after F), the first listed of the equally
\* ranked best emails being the one picked; [B, A-, D, A] gives the A email and
\* [B-, C] the B- email.
C4_BestGradeAbsentAsF ==
    (ephase = "resolved" /\ NoRecommendedNoWork /\ ValidProfessionals # {}) =>
        /\ resolved # EmptyDict
        /\ \E i \in ValidProfessionals :
              /\ CarriesEntry(i)
              /\ \A j \in ValidProfessionals :
                    \/ AmendedRank(Emails[i].grade) < AmendedRank(Emails[j].grade)
                    \/ AmendedRank(Emails[i].grade) = AmendedRank(Emails[j].grade) /\ i <= j
        /\ data = Example1 => resolved.email = "a@co"
        /\ data = Example2 => resolved.email = "bm@co"

\* C4 witness: an email without a grade is listed before an F-graded one, both
\* professional and not invalid, and the one without a grade is returned
C4_Witness ==
    /\ ephase = "resolved" /\ NoRecommendedNoWork
    /\ Len(Emails) = 2
    /\ ValidProfessionals = {1, 2}
    /\ Emails[1].grade = Absent /\ Emails[2].grade = "F"
    /\ resolved # EmptyDict /\ resolved.email = Emails[1].email

(***************************************************************************)
(* Properties of _rate_limit_check, checked under SpecRate                 *)
(***************************************************************************)

\* C8: taking a request as issued when its _rate_limit_check call returns, no
\* 1-second sliding window holds more than 5 issued requests.  Every window
\* with the most requests ends at a return time, and issued lists the returns of
\* the second that ends now.
C8_AtMostFivePerSecond ==
    rphase = "run" => Len(issued) <= RateCeiling

(***************************************************************************)
(* Properties of main() and the search calls, checked under Spec           *)
(***************************************************************************)
Rows == 1..Len(results)

\* how often id x occurs in a list of records with an id
Occurrences(x, list) == Cardinality({j \in 1..Len(list) : list[j].id = x})

\* C1: a company's result holds at most 5 contacts: search_people_profiles
\* returns at most 5 candidates, at most 5 lookups are made for a company and at
\* most 5 contacts are written to its row.
C1_AtMostFiveContacts ==
    /\ Len(profiles) <= 5
    /\ Len(looked) <= 5
    /\ Len(valid_contacts) <= 5
    /\ \A r \in Rows : Len(results[r].contacts) <= 5 /\ results[r].n <= 5

\* C1 witness: a stage returned more than 5 candidates and 5 are handed to main()
C1_Witness ==
    /\ pc = "profiles"
    /\ call_log.outcome = "success" /\ call_log.returned > 5
    /\ Len(profiles) = 5

UsableLookups == {j \in 1..Len(looked) : looked[j].usable}

\* C5: every contact of a row has a non-empty email that is not 'invalid'; a
\* candidate whose lookup fails, returns no email or only an invalid one adds
\* no contact: it takes no slot and is not counted in the status.
C5_OnlyVerifiedContacts ==
    /\ \A r \in Rows :
          /\ \A j \in 1..Len(results[r].contacts) :
                /\ results[r].contacts[j].email # ""
                /\ results[r].contacts[j].smtp_valid # "invalid"
          /\ results[r].n = found_log[r].usable
          /\ Len(results[r].contacts) = found_log[r].usable
    /\ \A j \in 1..Len(valid_contacts) :
          /\ valid_contacts[j].email # ""
          /\ valid_contacts[j].smtp_valid # "invalid"
    /\ Len(valid_contacts) = Cardinality(UsableLookups)

\* C5 witness: a company with lookups that failed or gave no usable email and
\* one that gave a contact, which alone is in the row
C5_Witness ==
    /\ pc = "row"
    /\ Len(looked) = 3
    /\ Cardinality(UsableLookups) = 1
    /\ Len(valid_contacts) = 1

\* C6: an id that the skill stage returned and the title stage had contributed
\* is once in the candidate list, looked up at most once and counted at most
\* once among the contacts.
C6_SharedIdOnce ==
    \A x \in shared :
        /\ pc \in {"profiles", "lookup", "row"} => Occurrences(x, profiles) <= 1
        /\ Occurrences(x, looked) <= 1
        /\ Occurrences(x, valid_contacts) <= 1

\* C7: a 429 makes _search_optimized wait and post the same payload again, at
\* most 3 posts are made in one call, and a call whose 3 posts were all
\* throttled returns [] and search_people_profiles goes on to the next stage.
C7_ThrottledRetries ==
    /\ pc = "search_loop" =>
          /\ retry_count < 3
          /\ Len(sent) = retry_count
          /\ slept = retry_count
          /\ \A j \in 1..Len(sent) : sent[j] = payload
          /\ payload.field = field /\ payload.company_domain = websites[idx]
    /\ call_log.outcome # "none" => call_log.attempts <= 3
    /\ call_log.outcome = "throttled" =>
          /\ call_log.attempts = 3
          /\ call_log.waits = 3
          /\ call_log.returned = 0
          /\ call_log.field = "current_title" => (pc = "search_enter" /\ field = "skills")
          /\ call_log.field = "skills" => pc = "profiles"

\* C7 witness: the title stage was throttled three times and the skill stage starts
C7_Witness ==
    /\ call_log.outcome = "throttled"
    /\ call_log.field = "current_title"
    /\ pc = "search_enter" /\ field = "skills"

\* C9: whatever the searches and lookups answer, the run never ends early and
\* the table holds one row per company processed, in input order, each with one
\* of the three statuses; at the end that is one row per input company.
C9_OneRowPerCompany ==
    /\ pc \in {"main_loop", "search_enter", "search_loop", "profiles", "lookup", "row",
               "done"}
    /\ Len(results) = idx - 1
    /\ \A r \in Rows : results[r].website = websites[r] /\ results[r].status \in Status
    /\ pc = "done" <=> Len(results) = NumCompanies
    /\ pc # "done" => ENABLED Next

\* C9 witness: the run is over, the first company got no profile and the last one
\* contacts
C9_Witness ==
    /\ pc = "done"
    /\ results[1].status = "no_profiles"
    /\ results[NumCompanies].status = "found"

\* C10: the status is 'found n', n >= 1 the number of verified contacts, when
\* there is one; 'no valid emails' when a stage returned a candidate and none
\* resolved; 'no profiles' exactly when no stage returned a candidate.
C10_StatusFromCandidates ==
    \A r \in Rows :
        /\ results[r].status = "found" <=> found_log[r].usable >= 1
        /\ results[r].status = "found" => results[r].n = found_log[r].usable
        /\ results[r].status = "no_valid_emails" <=>
              (found_log[r].any_candidate /\ found_log[r].usable = 0)
        /\ results[r].status = "no_profiles" <=> ~found_log[r].any_candidate

\* C10 witness: one company whose candidates all failed to resolve, one with two
\* verified contacts
C10_Witness ==
    /\ Len(results) = 2
    /\ results[1].status = "no_valid_emails" /\ found_log[1].any_candidate
    /\ results[2].status = "found" /\ results[2].n = 2

\* C11: no candidate that search_people_profiles returns was listed by a
\* response of this company with an exclude keyword in its title or in its
\* skills, whichever stage the response answered.
C11_ExcludedAbsent ==
    pc = "profiles" => Ids(profiles) \cap hit_ids = {}

\* C12: a lookup that is answered 429 waits the duration the server states and
\* sends the same lookup again before the candidate is given up.
C12_LookupRetriesThrottled ==
    (ephase = "resolved" /\ lookup_log.status = 429) =>
        /\ lookup_log.waits >= 1
        /\ lookup_log.requests >= 2

\* the wait the claimed preference order gives: the body's 'wait', else the
\* Retry-After header, else 60 seconds
ClaimedWait(response) ==
    IF response.json_ok /\ response.wait # NoValue THEN response.wait
    ELSE IF response.retry_after # NoValue THEN response.retry_after
    ELSE DefaultWait

\* C13: the wait _handle_rate_limit makes on a 429 is the 'wait' field of the
\* JSON body if present, otherwise the Retry-After header if present, otherwise
\* 60 seconds; a JSON body without 'wait' and a Retry-After header wait the
\* header's value.
C13_WaitPreferenceOrder ==
    throttle_log # NoCall =>
        throttle_log.waited = ClaimedWait(throttle_log.response)

\* C14: a search answered with a status that is neither 201 nor 429 makes
\* _search_optimized return [] at once, the failed request not being sent
\* again, and nothing is raised: after a failed title stage the skill stage of
\* the same company is entered, after a failed skill stage main() goes on with
\* what the title stage gave, and the run ends only with every company done.
C14_HttpErrorGivesEmpty ==
    /\ pc # "crashed"
    /\ call_log.outcome = "http_error" =>
          /\ call_log.returned = 0
          /\ call_log.attempts = call_log.waits + 1
          /\ call_log.field = "current_title" =>
                (pc = "search_enter" /\ field = "skills" /\ search_calls = 1)
          /\ call_log.field = "skills" => (pc = "profiles" /\ search_calls = 2)
    /\ pc = "done" => Len(results) = NumCompanies

\* C14 witness: the title search of the second company was answered with an
\* error status at the first request and its skill stage is about to start,
\* the first company having had its row
C14_Witness ==
    /\ idx = 2 /\ Len(results) = 1
    /\ call_log.outcome = "http_error" /\ call_log.field = "current_title"
    /\ call_log.attempts = 1
    /\ pc = "search_enter" /\ field = "skills"

\* C15: once a company has its quota of verified contacts (the 5 slots of a
\* row), no search request and no lookup request is sent for it any more: all
\* that is left for the company is to write its row.
C15_NoRequestAfterQuota ==
    Len(valid_contacts) >= Slots => pc = "row"

\* C15 witness: five lookups of a company gave five verified contacts
C15_Witness ==
    /\ Len(valid_contacts) = Slots
    /\ Len(looked) = 5
    /\ pc = "row"

\* C17: every HTTP request is preceded by a _rate_limit_check call of its own:
\* a _search_optimized call has made at least as many _rate_limit_check calls
\* as it has posted requests, retries after a 429 included.
C17_CheckBeforeEveryRequest ==
    /\ pc = "search_loop" => Len(sent) <= rate_checks
    /\ call_log.outcome # "none" => call_log.attempts <= rate_checks

\* C18: a search request that raises (timeout, connection error) is sent again
\* after a backoff: a search call gives [] because of an exception only once
\* its 3 attempts are used up.
C18_NetworkFailureRetried ==
    (call_log.outcome = "exception" /\ call_log.attempts >= 1) =>
        call_log.attempts = max_retries

\* the most steps one company takes: its start, two search calls of an entry
\* and 3 requests each, the start of the lookups, 5 lookups and the row
StepsPerCompany == 1 + 2 * (1 + max_retries) + 1 + ReturnCap + 1

\* the steps the company in progress has taken at least, by position
StepsTaken ==
    CASE pc = "main_loop"    -> 0
      [] pc = "search_enter" -> IF field = "current_title" THEN 1 ELSE 2 + max_retries
      [] pc = "search_loop"  -> (IF field = "current_title" THEN 2 ELSE 3 + max_retries)
                                   + retry_count
      [] pc = "profiles"     -> 2 + 2 * max_retries + 1
      [] pc = "lookup"       -> 2 + 2 * max_retries + 1 + pos
      [] pc = "row"          -> 2 + 2 * max_retries + 2 + ReturnCap
      [] OTHER               -> 0

\* a bound on the steps the run has left
StepsLeft ==
    IF pc = "done" THEN 0
    ELSE (NumCompanies - idx + 1) * StepsPerCompany - StepsTaken

\* C19: the run terminates whatever the service answers, a 429 to every
\* request included.  A search call makes at most 3 attempts, a company at
\* most 2 search calls and 5 lookups, every wait is a finite number of seconds,
\* every step of the run brings it closer to its end (StepsLeft decreases and
\* is never negative), and the run can always take a step until it is done
\* with every company.
C19_RunTerminates ==
    /\ [](/\ Len(sent) <= max_retries
          /\ call_log.outcome # "none" => call_log.attempts <= max_retries
          /\ search_calls <= 2
          /\ Len(looked) <= ReturnCap
          /\ throttle_log # NoCall => throttle_log.waited \in 0..DefaultWait
          /\ StepsLeft >= 0
          /\ pc = "done" => Len(results) = NumCompanies
          /\ pc # "done" => ENABLED Next)
    /\ [][StepsLeft' < StepsLeft]_vars

\* C19 witness: the last company's skill search was given up after three 429
\* answers, no stage gave it a candidate, the company before it got no profile
\* either, and the run is a bounded number of steps from its end
C19_Witness ==
    /\ pc = "profiles" /\ idx = NumCompanies
    /\ call_log.outcome = "throttled" /\ call_log.field = "skills"
    /\ call_log.attempts = max_retries
    /\ profiles = <<>>
    /\ results[idx - 1].status = "no_profiles"
    /\ StepsLeft \in 1..StepsPerCompany

\* the ids of a list never go down; every response lists its profiles by
\* ascending id, so a list in the order returned is one whose ids never go down
Ascending(list) == \A j \in 1..(Len(list) - 1) : list[j].id <= list[j + 1].id

\* the lookups of this company that gave a contact, in the order made
UsableSeq == SelectSeq(looked, LAMBDA e : e.usable)

InSearch == pc \in {"search_enter", "search_loop"}

\* C20: within a company the title search is sent before the skill search, no
\* lookup is made before both searches are over, the candidates are the title
\* stage's in the order returned followed by the skill stage's in the order
\* returned, the lookups are made in that order, and the contacts of the row
\* keep it.
C20_FixedOrder ==
    /\ [](/\ InSearch => (looked = <<>> /\ valid_contacts = <<>>)
          /\ (pc = "search_loop" /\ field = "skills") => search_calls = 2
          /\ (pc = "search_loop" /\ search_calls = 1) => field = "current_title"
          /\ pc \in {"lookup", "row"} =>
                \A j \in 1..Len(looked) : looked[j].id = profiles[j].id
          /\ Len(valid_contacts) = Len(UsableSeq)
          /\ \A j \in 1..Len(valid_contacts) : valid_contacts[j].id = UsableSeq[j].id)
    /\ [][/\ (pc = "search_loop" /\ field = "current_title" /\ pc' # "search_loop") =>
                (Ascending(all_results') /\ Ascending(profiles'))
          /\ (pc = "search_loop" /\ field = "skills" /\ pc' = "profiles") =>
                LET title_part == Take(all_results, ReturnCap)
                IN  /\ Len(profiles') >= Len(title_part)
                    /\ SubSeq(profiles', 1, Len(title_part)) = title_part
                    /\ Ascending(SubSeq(profiles', Len(title_part) + 1, Len(profiles')))
          /\ pc = "row" =>
                LET row == results'[Len(results')]
                IN  /\ Len(row.contacts) = Len(valid_contacts)
                    /\ \A j \in 1..Len(valid_contacts) :
                          row.contacts[j].email = valid_contacts[j].email]_vars

\* C20 witness: the last company, for which the skill stage returned an id the
\* title stage had contributed; its five candidates were looked up in order,
\* the last being the person with the work email, whose contact is the last of
\* several
C20_Witness ==
    /\ pc = "row" /\ idx = NumCompanies
    /\ shared # {}
    /\ Len(profiles) = 5 /\ profiles[5].id = WorkEmailId
    /\ Len(looked) = 5
    /\ Len(valid_contacts) >= 2
    /\ valid_contacts[Len(valid_contacts)].email = "w@co"
    /\ valid_contacts[1].email = "r@co"

\* C21: the skill stage is entered only if the title keywords are non-empty
\* and the title stage left the quota unmet: a skill-stage search request is
\* about to be sent only when job_titles holds a keyword and the title stage
\* supplied fewer candidates than search_people_profiles returns (5).
C21_SkillOnlyBelowQuota ==
    (pc = "search_loop" /\ field = "skills") =>
        (titles_given /\ Len(all_results) < ReturnCap)

\* C22: a stage fed an empty keyword set is skipped: _search_optimized posts no
\* request, lets no exception out and returns an empty list, both stages of
\* every company go that way, no lookup is made, and every company gets the
\* 'no profiles found' status.
C22_EmptyKeywordsSkipped ==
    /\ pc # "crashed"
    /\ call_log.outcome = "skipped" =>
          (~titles_given /\ call_log.attempts = 0 /\ call_log.returned = 0
             /\ call_log.waits = 0)
    /\ ~titles_given =>
          /\ pc # "search_loop" /\ sent = <<>> /\ payload = EmptyDict
          /\ call_log.outcome # "none" =>
                (call_log.outcome \in {"skipped", "exception"}
                   /\ call_log.attempts = 0 /\ call_log.returned = 0)
          /\ pc = "profiles" => (search_calls = 2 /\ call_log.field = "skills")
          /\ profiles = <<>> /\ looked = <<>> /\ ~any_candidate
          /\ \A r \in Rows : results[r].status = "no_profiles"
                                /\ results[r].contacts = <<>>

\* C22 witness: no keyword was given, the first company got its row and both
\* stages of the second one have been skipped
C22_Witness ==
    /\ ~titles_given
    /\ pc = "profiles" /\ Len(results) = 1
    /\ search_calls = 2
    /\ call_log.outcome = "skipped" /\ call_log.field = "skills"

\* C23: the candidates search_people_profiles returns have pairwise distinct
\* identifiers whatever the two search responses list, a response that lists
\* one identifier twice included, and no identifier is looked up twice for one
\* company.
C23_DistinctCandidates ==
    /\ \A j, k \in 1..Len(profiles) : profiles[j].id = profiles[k].id => j = k
    /\ \A j, k \in 1..Len(looked) : looked[j].id = looked[k].id => j = k

====
